---- MODULE Spec2Model ----
(***************************************************************************)
(* Model of the guess-scoring engine of resonate (src/src/pages/Game.tsx): *)
(* normalizeTitle, levenshteinDistance, similarity, and the part of the    *)
(* Game component that submits guesses and applies the 0.7 threshold.      *)
(*                                                                         *)
(* A string is a sequence of one-character strings.  A similarity value is *)
(* the exact rational <<num, den>> (den > 0) denoted by the floating point *)
(* expression 1 - dist / maxLen; for dist <= maxLen < 3000 the double      *)
(* comparison (1 - dist / maxLen) >= 0.7 and the exact comparison          *)
(* 10 * (maxLen - dist) >= 7 * maxLen give the same answer.                *)
(*                                                                         *)
(* Specifications: SpecNorm and SpecGroups apply normalizeTitle to one raw *)
(* string, SpecLev applies levenshteinDistance and SpecSim similarity to a *)
(* pair of strings, SpecSteps runs two similarity calls statement by       *)
(* statement in every interleaving, FairSpecOneCall runs one call          *)
(* statement by statement to its return, Spec is the Game component,       *)
(* SpecLoad its track-loading effect for a given numTracks parameter,      *)
(* SpecAudio the component with its audio and its unmounting, SpecDraw the *)
(* draw of the tracks, FairSpecEffect the loading effect await by await.   *)
(* SpecToken and SpecTokens run one and two calls of getValidAccessToken,  *)
(* SpecCallback two calls of handleSpotifyRedirectCallback, of spotifyAuth *)
(* (src/src/App.tsx), await by await.                                      *)
(***************************************************************************)
EXTENDS Integers, Sequences, FiniteSets, TLC

VARIABLES
    aRaw,          \* first argument of the scorer call under study
    bRaw,          \* second argument of the scorer call under study
    pc,            \* "idle" before the call, afterwards the name of the function that ran
    ret,           \* value the call returned (NoRet before the call)
    frames,        \* locals and position of each similarity call run step by step
    heap,          \* the arrays allocated by those calls (the rolling rows)
    tracks,        \* Game: names of the chosen tracks (useState tracks)
    currentIndex,  \* Game: 0-based index of the current track
    guess,         \* Game: content of the guess text field
    triesLeft,     \* Game: tries left in this round
    revealed,      \* Game: the answer is shown
    result,        \* Game: "idle" | "correct" | "wrong"
    round,         \* Game: 1-based round number
    totalRounds,   \* Game: number of rounds of the session
    loading,       \* Game: the track-loading effect has not ended
    error,         \* Game: error message, "" for null
    correctCount,  \* Game: rounds scored correct
    wrongCount,    \* Game: rounds scored wrong
    audio,         \* Game: the Audio objects created, audioRef, timeoutRef, pending timers
    effect,        \* Game: position of the track-loading effect
    auth           \* spotifyAuth: storage, clock, token requests, calls in progress

stepVars == <<frames, heap>>
scorerVars == <<aRaw, bRaw, pc, ret, frames, heap>>
gameVars == <<tracks, currentIndex, guess, triesLeft, revealed, result, round,
              totalRounds, loading, error, correctCount, wrongCount, audio, effect>>
vars == <<aRaw, bRaw, pc, ret, frames, heap, tracks, currentIndex, guess, triesLeft, revealed,
          result, round, totalRounds, loading, error, correctCount, wrongCount, audio,
          effect, auth>>

----------------------------------------------------------------------------
(* Bounds of the model *)

\* longest raw string given to normalizeTitle over the full character set
MaxRawLen == 4
\* most pieces (characters and bracket groups) of a raw string with groups
MaxPieces == 4
\* longest string given to levenshteinDistance
MaxLevLen == 5
\* longest raw string given to similarity
MaxSimLen == 4
\* longest typed guess
MaxGuessLen == 10
\* the Next button is not clicked beyond this round
MaxRound == 4

\* most fetched tracks with a preview URL
MaxFetched == 4

\* most Audio objects created by Play snippet
MaxAudios == 3

\* longest text of a numTracks query parameter
MaxParamLen == 3

\* longest raw argument of a call run statement by statement
MaxStepLen == 2

\* most clock ticks of a run of spotifyAuth
MaxTicks == 2

----------------------------------------------------------------------------
(* Characters *)

LowerLetters == {"a", "b"}
UpperLetters == {"A", "B"}
Digits == {"1"}
Whitespace == {" ", "\t"}
Punctuation == {"!"}
Delimiters == {"(", ")", "[", "]"}

Max(x, y) == IF x >= y THEN x ELSE y
Min(x, y) == IF x <= y THEN x ELSE y

\* all strings over the characters cs of length at most n
StringsUpTo(cs, n) == UNION {[1..k -> cs] : k \in 0..n}

\* String.prototype.toLowerCase on one character
toLowerCaseChar(c) ==
    IF c = "A" THEN "a" ELSE IF c = "B" THEN "b" ELSE c

toLowerCase(s) == [i \in 1..Len(s) |-> toLowerCaseChar(s[i])]

\* index of the first c in s at or after position from, 0 when there is none
IndexFrom(s, c, from) ==
    IF \E j \in from..Len(s) : s[j] = c
    THEN CHOOSE j \in from..Len(s) :
            s[j] = c /\ \A k \in from..(j - 1) : s[k] # c
    ELSE 0

\* index of the last c in s, 0 when there is none
LastIndex(s, c) ==
    IF \E j \in 1..Len(s) : s[j] = c
    THEN CHOOSE j \in 1..Len(s) : s[j] = c /\ \A k \in (j + 1)..Len(s) : s[k] # c
    ELSE 0

\* the greedy pattern /\(.*\)|\[.*\]/: a match runs to the last closing delimiter
GroupMatchEndGreedy(s, i) ==
    IF s[i] = "(" /\ LastIndex(s, ")") > i THEN LastIndex(s, ")")
    ELSE IF s[i] = "[" /\ LastIndex(s, "]") > i THEN LastIndex(s, "]")
    ELSE 0

\* the pattern /\([^)]*(\)|$)|\[[^\]]*(\]|$)/: an unclosed group runs to the end
GroupMatchEndOrEndOfString(s, i) ==
    IF s[i] = "(" THEN (IF IndexFrom(s, ")", i + 1) > 0 THEN IndexFrom(s, ")", i + 1) ELSE Len(s))
    ELSE IF s[i] = "[" THEN (IF IndexFrom(s, "]", i + 1) > 0 THEN IndexFrom(s, "]", i + 1) ELSE Len(s))
    ELSE 0

\* Where a match of /\([^)]*\)|\[[^\]]*\]/ that starts at position i ends, 0 when
\* none starts there: [^)]* cannot pass a ")", so the match ends at the first one.
GroupMatchEnd(s, i) ==
    IF s[i] = "(" /\ IndexFrom(s, ")", i + 1) > 0 THEN IndexFrom(s, ")", i + 1)
    ELSE IF s[i] = "[" /\ IndexFrom(s, "]", i + 1) > 0 THEN IndexFrom(s, "]", i + 1)
    ELSE 0

\* .replace(/\([^)]*\)|\[[^\]]*\]/g, ""): scan from position i, dropping each
\* match found and continuing after it; the positions of s that are kept, in order
RECURSIVE KeptFrom(_, _)
KeptFrom(s, i) ==
    IF i > Len(s) THEN <<>>
    ELSE LET e == GroupMatchEnd(s, i)
         IN  IF e > 0 THEN KeptFrom(s, e + 1)
             ELSE <<i>> \o KeptFrom(s, i + 1)

keptPositions(s) == {KeptFrom(s, 1)[k] : k \in 1..Len(KeptFrom(s, 1))}

removeGroups(s) ==
    LET kept == KeptFrom(s, 1)
    IN  [k \in 1..Len(kept) |-> s[kept[k]]]

\* .replace(/[^a-z0-9\s]/g, "")
keepsChar(c) == c \in LowerLetters \cup Digits \cup Whitespace

removeOtherChars(s) == SelectSeq(s, keepsChar)

\* .replace(/\s+/g, " "): each maximal run of whitespace becomes one space
RECURSIVE CollapseFrom(_, _)
CollapseFrom(s, i) ==
    IF i > Len(s) THEN <<>>
    ELSE IF s[i] \in Whitespace
         THEN IF i > 1 /\ s[i - 1] \in Whitespace
              THEN CollapseFrom(s, i + 1)
              ELSE <<" ">> \o CollapseFrom(s, i + 1)
         ELSE <<s[i]>> \o CollapseFrom(s, i + 1)

collapseWhitespace(s) == CollapseFrom(s, 1)

\* String.prototype.trim
trim(s) ==
    IF \A i \in 1..Len(s) : s[i] \in Whitespace THEN <<>>
    ELSE LET first == CHOOSE i \in 1..Len(s) :
                         s[i] \notin Whitespace /\ \A k \in 1..(i - 1) : s[k] \in Whitespace
             last == CHOOSE i \in 1..Len(s) :
                         s[i] \notin Whitespace /\ \A k \in (i + 1)..Len(s) : s[k] \in Whitespace
         IN  SubSeq(s, first, last)

normalizeTitleFilterAfterCollapse(input) ==
    trim(removeOtherChars(collapseWhitespace(removeGroups(toLowerCase(input)))))

normalizeTitleNoTrim(input) ==
    collapseWhitespace(removeOtherChars(removeGroups(toLowerCase(input))))

normalizeTitle(input) ==
    trim(collapseWhitespace(removeOtherChars(removeGroups(toLowerCase(input)))))

----------------------------------------------------------------------------
(* levenshteinDistance: one rolling row dp[0..n] and the saved diagonal prev *)

Min3(x, y, z) == Min(x, Min(y, z))

\* the value stored into dp[j]: diag is prev, up is the old dp[j], left is dp[j - 1]
levCellNoSubstitution(same, diag, up, left) ==
    IF same THEN diag ELSE Min(up + 1, left + 1)

levCellMax(same, diag, up, left) ==
    IF same THEN diag ELSE Max(diag + 1, Max(up + 1, left + 1))

levCellNoDeletion(same, diag, up, left) ==
    IF same THEN diag ELSE Min(diag + 1, left + 1)

levCell(same, diag, up, left) ==
    IF same THEN diag ELSE Min3(diag + 1, up + 1, left + 1)

\* the loop over j of row i, entered at j with the row dp and the diagonal prev
RECURSIVE levInnerLoop(_, _, _, _, _, _)
levInnerLoop(a, b, i, j, dp, prev) ==
    IF j > Len(b) THEN dp
    ELSE LET temp == dp[j]
             cell == levCell(a[i] = b[j], prev, dp[j], dp[j - 1])
             row == [dp EXCEPT ![j] = cell]
         IN  \* the test makes TLC evaluate row and temp before the next iteration
             \* is entered, as the assignments of the loop body are; it is always true
             IF row[j] >= 0 /\ temp >= 0
             THEN levInnerLoop(a, b, i, j + 1, row, temp)
             ELSE row

\* the loop over i without the assignment dp[0] = i
RECURSIVE levOuterLoopNoColumnInit(_, _, _, _)
levOuterLoopNoColumnInit(a, b, i, dp) ==
    IF i > Len(a) THEN dp
    ELSE levOuterLoopNoColumnInit(a, b, i + 1, levInnerLoop(a, b, i, 1, dp, dp[0]))

\* the loop over i, entered at i with the row dp
RECURSIVE levOuterLoop(_, _, _, _)
levOuterLoop(a, b, i, dp) ==
    IF i > Len(a) THEN dp
    ELSE levOuterLoop(a, b, i + 1,
                      levInnerLoop(a, b, i, 1, [dp EXCEPT ![0] = i], dp[0]))

levenshteinDistance(a, b) ==
    LET m == Len(a)
        n == Len(b)
    IN  IF m = 0 THEN n
        ELSE IF n = 0 THEN m
        ELSE levOuterLoop(a, b, 1, [j \in 0..n |-> j])[n]

----------------------------------------------------------------------------
(* similarity: the locals of one call and the value it returns *)

\* the division is reached with whatever lengths the two normalized strings have
similarityCallNoEmptyCheck(x, y) ==
    LET a == normalizeTitle(x)
        b == normalizeTitle(y)
        dist == levenshteinDistance(a, b)
        longest == Max(Len(a), Len(b))
        maxLen == IF longest = 0 THEN 1 ELSE longest
    IN  [a |-> a, b |-> b, distComputed |-> TRUE, dist |-> dist,
         fallback |-> (longest = 0), maxLen |-> maxLen,
         value |-> <<maxLen - dist, maxLen>>]

\* returns 1 as soon as one of the two normalized strings is empty
similarityCallEitherEmpty(x, y) ==
    LET a == normalizeTitle(x)
        b == normalizeTitle(y)
    IN  IF Len(a) = 0 \/ Len(b) = 0
        THEN [a |-> a, b |-> b, distComputed |-> FALSE, dist |-> 0,
              fallback |-> FALSE, maxLen |-> 0, value |-> <<1, 1>>]
        ELSE similarityCallNoEmptyCheck(x, y)

\* returns 0 when both normalized strings are empty
similarityCallEmptyIsZero(x, y) ==
    LET a == normalizeTitle(x)
        b == normalizeTitle(y)
    IN  IF Len(a) = 0 /\ Len(b) = 0
        THEN [a |-> a, b |-> b, distComputed |-> FALSE, dist |-> 0,
              fallback |-> FALSE, maxLen |-> 0, value |-> <<0, 1>>]
        ELSE similarityCallNoEmptyCheck(x, y)

\* distComputed: levenshteinDistance was called; fallback: Math.max(...) was 0 and
\* "|| 1" supplied the denominator
similarityCall(x, y) ==
    LET a == normalizeTitle(x)
        b == normalizeTitle(y)
    IN  IF Len(a) = 0 /\ Len(b) = 0
        THEN [a |-> a, b |-> b, distComputed |-> FALSE, dist |-> 0,
              fallback |-> FALSE, maxLen |-> 0, value |-> <<1, 1>>]
        ELSE LET dist == levenshteinDistance(a, b)
                 longest == Max(Len(a), Len(b))
                 maxLen == IF longest = 0 THEN 1 ELSE longest
             IN  [a |-> a, b |-> b, distComputed |-> TRUE, dist |-> dist,
                  fallback |-> (longest = 0), maxLen |-> maxLen,
                  value |-> <<maxLen - dist, maxLen>>]

similarity(x, y) == similarityCall(x, y).value

\* comparisons of similarity values <<num, den>> with den > 0
RatEq(p, q) == p[1] * q[2] = q[1] * p[2]
RatGeq(p, q) == p[1] * q[2] >= q[1] * p[2]

----------------------------------------------------------------------------
(* The state after construction of the Game component (useState initial values) *)

NoRet == [fn |-> "none"]

\* no Audio object created: audioRef.current and timeoutRef.current are null (0),
\* no timer is pending, the component is mounted
NoAudio == [objects |-> <<>>, ref |-> 0, timeoutRef |-> 0, pending |-> {}, mounted |-> TRUE]

\* the spotifyAuth module is not exercised
NoAuth == auth = [used |-> FALSE]

\* no call is being run step by step
NoFrames == frames = <<>> /\ heap = <<>>

GameConstructed ==
    /\ tracks = <<>>
    /\ currentIndex = 0
    /\ guess = <<>>
    /\ triesLeft = 3
    /\ revealed = FALSE
    /\ result = "idle"
    /\ round = 1
    /\ totalRounds = 10
    /\ loading = TRUE
    /\ error = ""
    /\ correctCount = 0
    /\ wrongCount = 0
    /\ audio = NoAudio
    /\ effect = "pending"

----------------------------------------------------------------------------
(* normalizeTitle applied to one raw string *)

AllChars == LowerLetters \cup {"A"} \cup Digits \cup Whitespace \cup Punctuation
                \cup Delimiters

CallNormalizeTitle ==
    /\ pc = "idle"
    /\ ret' = [fn |-> "normalizeTitle", value |-> normalizeTitle(aRaw)]
    /\ pc' = "normalizeTitle"
    /\ UNCHANGED <<aRaw, bRaw>>
    /\ UNCHANGED stepVars
    /\ UNCHANGED gameVars
    /\ UNCHANGED auth

InitNorm ==
    /\ aRaw \in StringsUpTo(AllChars, MaxRawLen)
    /\ bRaw = <<>>
    /\ pc = "idle"
    /\ ret = NoRet
    /\ NoFrames
    /\ GameConstructed
    /\ NoAuth

NextNorm == CallNormalizeTitle

SpecNorm == InitNorm /\ [][NextNorm]_vars

----------------------------------------------------------------------------
(* normalizeTitle applied to raw strings made of text, delimiters and groups *)

GroupPieces ==
    {<<"a">>, <<" ">>, <<"(">>, <<")">>, <<"[">>, <<"]">>, <<"(", "a", ")">>,
     <<"[", "a", "]">>}

\* the concatenations of at most n pieces
RECURSIVE Concatenations(_, _)
Concatenations(P, n) ==
    IF n = 0 THEN {<<>>}
    ELSE LET shorter == Concatenations(P, n - 1)
         IN  shorter \cup {s \o q : s \in shorter, q \in P}

InitGroups ==
    /\ aRaw \in Concatenations(GroupPieces, MaxPieces)
    /\ bRaw = <<>>
    /\ pc = "idle"
    /\ ret = NoRet
    /\ NoFrames
    /\ GameConstructed
    /\ NoAuth

NextGroups == CallNormalizeTitle

SpecGroups == InitGroups /\ [][NextGroups]_vars

----------------------------------------------------------------------------
(* levenshteinDistance applied to two strings *)

LevChars == {"a", "b"}

CallLevenshteinDistance ==
    /\ pc = "idle"
    /\ ret' = [fn |-> "levenshteinDistance", value |-> levenshteinDistance(aRaw, bRaw)]
    /\ pc' = "levenshteinDistance"
    /\ UNCHANGED <<aRaw, bRaw>>
    /\ UNCHANGED stepVars
    /\ UNCHANGED gameVars
    /\ UNCHANGED auth

InitLev ==
    /\ aRaw \in StringsUpTo(LevChars, MaxLevLen)
    /\ bRaw \in StringsUpTo(LevChars, MaxLevLen)
    /\ pc = "idle"
    /\ ret = NoRet
    /\ NoFrames
    /\ GameConstructed
    /\ NoAuth

NextLev == CallLevenshteinDistance

SpecLev == InitLev /\ [][NextLev]_vars

----------------------------------------------------------------------------
(* similarity applied to two raw strings *)

SimChars == {"a", "B", " "}

\* raw strings made only of punctuation, whitespace or bracketed groups
NoiseInputs == {<<"!">>, <<"\t", "!">>, <<"(", "a", ")">>, <<"[", "]", " ", "!">>}

SimInputs == StringsUpTo(SimChars, MaxSimLen) \cup NoiseInputs

CallSimilarity ==
    /\ pc = "idle"
    /\ ret' = [fn |-> "similarity", value |-> similarity(aRaw, bRaw),
               locals |-> similarityCall(aRaw, bRaw)]
    /\ pc' = "similarity"
    /\ UNCHANGED <<aRaw, bRaw>>
    /\ UNCHANGED stepVars
    /\ UNCHANGED gameVars
    /\ UNCHANGED auth

InitSim ==
    /\ aRaw \in SimInputs
    /\ bRaw \in SimInputs
    /\ pc = "idle"
    /\ ret = NoRet
    /\ NoFrames
    /\ GameConstructed
    /\ NoAuth

NextSim == CallSimilarity

SpecSim == InitSim /\ [][NextSim]_vars

----------------------------------------------------------------------------
(* similarity run statement by statement.  Each call has a frame holding its
   locals; the array that levenshteinDistance allocates lives in the heap and
   the frame's dp refers to it.  Two calls are run in every interleaving. *)

\* the calls that are run
FrameIds == DOMAIN frames

StepChars == {"a", "b"}

\* raw arguments of the first call
StepInputs == StringsUpTo(StepChars, MaxStepLen) \cup {<<"A", "!">>, <<" ">>}

\* argument pairs of the second call
OtherCalls ==
    {<<<<"a", "b">>, <<"b">>>>, <<<<"b">>, <<"a", "b", "a">>>>, <<<<"!">>, <<"a">>>>}

\* the frame on entry of similarity(x, y)
NewFrame(x, y) ==
    [pc |-> "start", aRaw |-> x, bRaw |-> y, a |-> <<>>, b |-> <<>>, dp |-> 0,
     i |-> 0, j |-> 0, prev |-> 0, dist |-> 0, maxLen |-> 0, value |-> <<0, 1>>,
     oob |-> FALSE]

\* array[k]: an index outside the array reads as undefined, taken as 0 here; the
\* frame's oob records that the read fell outside
inRow(row, k) == k \in DOMAIN row
readRow(row, k) == IF k \in DOMAIN row THEN row[k] ELSE 0
writeRow(row, k, v) == [x \in (DOMAIN row) \cup {k} |-> IF x = k THEN v ELSE row[x]]

\* s[k] with the 0-based index k of the source
inString(s, k) == (k + 1) \in DOMAIN s
charAt(s, k) == IF (k + 1) \in DOMAIN s THEN s[k + 1] ELSE "undefined"

\* an array of length n
newRowShort(rows, n) ==
    [heap |-> Append(rows, [j \in 0..(n - 1) |-> j]), ref |-> Len(rows) + 1]

\* one array kept between the calls and reinitialized by each
newRowShared(rows, n) ==
    [heap |-> IF rows = <<>> THEN <<[j \in 0..n |-> j]>>
              ELSE [rows EXCEPT ![1] = [j \in 0..n |-> j]],
     ref |-> 1]

\* a new array that keeps the values the previously allocated one ended with
newRowStale(rows, n) ==
    [heap |-> Append(rows, [j \in 0..n |->
                               IF rows # <<>> /\ j \in DOMAIN rows[Len(rows)]
                               THEN rows[Len(rows)][j] ELSE j]),
     ref |-> Len(rows) + 1]

\* Array.from({ length: n + 1 }, (_, j) => j): a new array 0, 1, ..., n
newRow(rows, n) ==
    [heap |-> Append(rows, [j \in 0..n |-> j]), ref |-> Len(rows) + 1]

\* const a = normalizeTitle(aRaw); const b = normalizeTitle(bRaw)
similarityEnter(f) ==
    /\ frames[f].pc = "start"
    /\ frames' = [frames EXCEPT ![f].a = normalizeTitle(frames[f].aRaw),
                                ![f].b = normalizeTitle(frames[f].bRaw),
                                ![f].pc = "check"]
    /\ UNCHANGED heap
    /\ UNCHANGED <<aRaw, bRaw, pc, ret>>
    /\ UNCHANGED gameVars
    /\ UNCHANGED auth

\* if (!a.length && !b.length) return 1
similarityCheck(f) ==
    /\ frames[f].pc = "check"
    /\ frames' = IF Len(frames[f].a) = 0 /\ Len(frames[f].b) = 0
                 THEN [frames EXCEPT ![f].value = <<1, 1>>, ![f].pc = "done"]
                 ELSE [frames EXCEPT ![f].pc = "lev"]
    /\ UNCHANGED heap
    /\ UNCHANGED <<aRaw, bRaw, pc, ret>>
    /\ UNCHANGED gameVars
    /\ UNCHANGED auth

\* levenshteinDistance up to the allocation of dp
levenshteinEnter(f) ==
    /\ frames[f].pc = "lev"
    /\ LET m == Len(frames[f].a)
           n == Len(frames[f].b)
           r == newRow(heap, n)
       IN  IF m = 0
           THEN /\ frames' = [frames EXCEPT ![f].dist = n, ![f].pc = "divide"]
                /\ UNCHANGED heap
           ELSE IF n = 0
           THEN /\ frames' = [frames EXCEPT ![f].dist = m, ![f].pc = "divide"]
                /\ UNCHANGED heap
           ELSE /\ heap' = r.heap
                /\ frames' = [frames EXCEPT ![f].dp = r.ref, ![f].i = 1,
                                            ![f].pc = "outer"]
    /\ UNCHANGED <<aRaw, bRaw, pc, ret>>
    /\ UNCHANGED gameVars
    /\ UNCHANGED auth

\* the test i <= m, then either the head of the loop over i or return dp[n]
levenshteinOuter(f) ==
    /\ frames[f].pc = "outer"
    /\ LET m == Len(frames[f].a)
           n == Len(frames[f].b)
           row == heap[frames[f].dp]
       IN  IF frames[f].i <= m
           THEN /\ frames' = [frames EXCEPT ![f].prev = readRow(row, 0),
                                            ![f].oob = @ \/ ~inRow(row, 0),
                                            ![f].j = 1,
                                            ![f].pc = "inner"]
                /\ heap' = [heap EXCEPT ![frames[f].dp] = writeRow(row, 0, frames[f].i)]
           ELSE /\ frames' = [frames EXCEPT ![f].dist = readRow(row, n),
                                            ![f].oob = @ \/ ~inRow(row, n),
                                            ![f].pc = "divide"]
                /\ UNCHANGED heap
    /\ UNCHANGED <<aRaw, bRaw, pc, ret>>
    /\ UNCHANGED gameVars
    /\ UNCHANGED auth

\* the test j <= n, then either one pass of the loop over j or i++
levenshteinInner(f) ==
    /\ frames[f].pc = "inner"
    /\ LET a == frames[f].a
           b == frames[f].b
           i == frames[f].i
           j == frames[f].j
           row == heap[frames[f].dp]
           temp == readRow(row, j)
           same == charAt(a, i - 1) = charAt(b, j - 1)
           cell == levCell(same, frames[f].prev, readRow(row, j), readRow(row, j - 1))
           outside == \/ ~inRow(row, j)
                      \/ ~inString(a, i - 1)
                      \/ ~inString(b, j - 1)
                      \/ ~same /\ ~inRow(row, j - 1)
       IN  IF j <= Len(b)
           THEN /\ heap' = [heap EXCEPT ![frames[f].dp] = writeRow(row, j, cell)]
                /\ frames' = [frames EXCEPT ![f].prev = temp,
                                            ![f].oob = @ \/ outside,
                                            ![f].j = j + 1]
           ELSE /\ frames' = [frames EXCEPT ![f].i = i + 1, ![f].pc = "outer"]
                /\ UNCHANGED heap
    /\ UNCHANGED <<aRaw, bRaw, pc, ret>>
    /\ UNCHANGED gameVars
    /\ UNCHANGED auth

\* const maxLen = Math.max(a.length, b.length) || 1; return 1 - dist / maxLen
similarityReturn(f) ==
    /\ frames[f].pc = "divide"
    /\ LET longest == Max(Len(frames[f].a), Len(frames[f].b))
           maxLen == IF longest = 0 THEN 1 ELSE longest
       IN  frames' = [frames EXCEPT ![f].maxLen = maxLen,
                                    ![f].value = <<maxLen - frames[f].dist, maxLen>>,
                                    ![f].pc = "done"]
    /\ UNCHANGED heap
    /\ UNCHANGED <<aRaw, bRaw, pc, ret>>
    /\ UNCHANGED gameVars
    /\ UNCHANGED auth

Step(f) ==
    \/ similarityEnter(f)
    \/ similarityCheck(f)
    \/ levenshteinEnter(f)
    \/ levenshteinOuter(f)
    \/ levenshteinInner(f)
    \/ similarityReturn(f)

InitSteps ==
    /\ aRaw = <<>>
    /\ bRaw = <<>>
    /\ pc = "idle"
    /\ ret = NoRet
    /\ \E x \in StepInputs, y \in StepInputs, other \in OtherCalls :
          frames = <<NewFrame(x, y), NewFrame(other[1], other[2])>>
    /\ heap = <<>>
    /\ GameConstructed
    /\ NoAuth

NextSteps == \E f \in FrameIds : Step(f)

SpecSteps == InitSteps /\ [][NextSteps]_vars

\* one call run alone
InitOneCall ==
    /\ aRaw = <<>>
    /\ bRaw = <<>>
    /\ pc = "idle"
    /\ ret = NoRet
    /\ \E x \in StepInputs, y \in StepInputs : frames = <<NewFrame(x, y)>>
    /\ heap = <<>>
    /\ GameConstructed
    /\ NoAuth

\* the engine executes the next statement of a call that has not returned
FairSpecOneCall == InitOneCall /\ [][NextSteps]_vars /\ WF_vars(NextSteps)

----------------------------------------------------------------------------
(* The Game component *)

Rep(c, n) == [i \in 1..n |-> c]

\* names of the tracks the catalog returns with a preview URL
TrackPool == {Rep("a", 10), <<"A", "b", " ", "(", "a", ")">>}

\* currentTrack.artists.map((a) => a.name).join(", ") of the track of that name
trackArtists(name) == IF name = Rep("a", 10) THEN <<"B">> ELSE <<"b", "1">>

\* what the player can type into the guess field
GuessInputs ==
    UNION {{Rep("a", n) \o Rep("b", k) : k \in 0..(MaxGuessLen - n)} : n \in 0..MaxGuessLen}
        \cup {<<"!">>, <<" ">>, <<"a", "B", "!">>, <<"(", "a", ")", "b">>}

\* the sequences without repetition of n elements of S
RECURSIVE Arrangements(_, _)
Arrangements(S, n) ==
    IF n = 0 THEN {<<>>}
    ELSE UNION {{<<x>> \o t : t \in Arrangements(S \ {x}, n - 1)} : x \in S}

\* const currentTrack = tracks[currentIndex] ?? null
hasCurrentTrack == currentIndex >= 0 /\ currentIndex < Len(tracks)
currentTrackName == tracks[currentIndex + 1]

\* sim >= 0.7
meetsThresholdStrict(sim) == ~RatGeq(<<7, 10>>, sim)

meetsThreshold(sim) == RatGeq(sim, <<7, 10>>)

\* a numTracks query parameter: absent, or present with a text
MissingParam == [present |-> FALSE, text |-> <<>>]
PresentParam(text) == [present |-> TRUE, text |-> text]

\* the decimal digits, the digit of value k at position k + 1
DigitChars == <<"0", "1", "2", "3", "4", "5", "6", "7", "8", "9">>
DecimalDigits == {DigitChars[k] : k \in 1..Len(DigitChars)}

\* the digits that occur in the parameter texts of the model
ParamDigits == {"0", "1", "2", "3"}

DigitValue(c) == (CHOOSE k \in 1..Len(DigitChars) : DigitChars[k] = c) - 1

\* the value of a string of decimal digits
RECURSIVE digitsValue(_)
digitsValue(s) ==
    IF s = <<>> THEN 0
    ELSE 10 * digitsValue(SubSeq(s, 1, Len(s) - 1)) + DigitValue(s[Len(s)])

NaN == [nan |-> TRUE, int |-> 0, frac |-> FALSE]

\* String(n) of an integer n >= 0
RECURSIVE numberString(_)
numberString(n) ==
    IF n < 10 THEN <<DigitChars[n + 1]>>
    ELSE numberString(n \div 10) \o <<DigitChars[(n % 10) + 1]>>

\* Number(text) for texts of digits, ".", whitespace and letters: white space is
\* trimmed, the empty string is 0, digits with at most one "." are a decimal
\* literal, anything else is NaN.  int is the integer part and frac tells that the
\* fractional part is not zero.
toNumber(text) ==
    LET t == trim(text)
        dots == {k \in 1..Len(t) : t[k] = "."}
        dot == IF dots = {} THEN Len(t) + 1 ELSE CHOOSE k \in dots : TRUE
        intPart == SubSeq(t, 1, dot - 1)
        fracPart == SubSeq(t, dot + 1, Len(t))
        allDigits(u) == \A k \in 1..Len(u) : u[k] \in DecimalDigits
    IN  IF t = <<>> THEN [nan |-> FALSE, int |-> 0, frac |-> FALSE]
        ELSE IF /\ Cardinality(dots) <= 1
                /\ allDigits(intPart) /\ allDigits(fracPart)
                /\ Len(intPart) + Len(fracPart) > 0
        THEN [nan |-> FALSE, int |-> digitsValue(intPart),
              frac |-> \E k \in 1..Len(fracPart) : fracPart[k] # "0"]
        ELSE NaN

\* Number(params.get("numTracks") ?? 10)
numTracksParam(param) ==
    IF param.present THEN toNumber(param.text)
    ELSE [nan |-> FALSE, int |-> 10, frac |-> FALSE]

allowedCounts == {3, 10, 20}

\* allowedCounts.includes(x)
includesCount(x) == ~x.nan /\ ~x.frac /\ x.int \in allowedCounts

\* any number the parameter denotes is used
roundsForUnchecked(param) ==
    IF numTracksParam(param).nan THEN 10 ELSE numTracksParam(param).int

\* const rounds = allowedCounts.includes(numTracksParam) ? numTracksParam : 10
roundsFor(param) ==
    IF includesCount(numTracksParam(param)) THEN numTracksParam(param).int ELSE 10

\* the numTracks parameters of the URLs the Game page is opened with
NumTracksParams ==
    {MissingParam, PresentParam(<<"3">>), PresentParam(<<"2", "0">>),
     PresentParam(<<"2">>), PresentParam(<<"a">>)}

\* the track-loading effect when getValidAccessToken gives no token
LoadNoToken ==
    /\ audio.mounted
    /\ loading /\ effect = "pending"
    /\ loading' = FALSE
    /\ error' = "Please log in to play."
    /\ effect' = "ended"
    /\ UNCHANGED <<tracks, currentIndex, guess, triesLeft, revealed, result, round,
                   totalRounds, correctCount, wrongCount, audio>>
    /\ UNCHANGED scorerVars
    /\ UNCHANGED auth

\* the track-loading effect when it throws after setTotalRounds
LoadFailedWith(param) ==
    /\ audio.mounted
    /\ loading /\ effect = "pending"
    /\ totalRounds' = roundsFor(param)
    /\ error' \in {"No playlist selected. Go back and choose one.",
                   "Failed to load tracks",
                   "No previewable tracks found in the selected source."}
    /\ loading' = FALSE
    /\ effect' = "ended"
    /\ UNCHANGED <<tracks, currentIndex, guess, triesLeft, revealed, result, round,
                   correctCount, wrongCount, audio>>
    /\ UNCHANGED scorerVars
    /\ UNCHANGED auth

\* the pool after pool.splice(idx, 1), idx counted from 1
spliceOne(pool, idx) == SubSeq(pool, 1, idx - 1) \o SubSeq(pool, idx + 1, Len(pool))

\* the loop without the test chosen.length < rounds
RECURSIVE drawTracksNoCap(_, _, _)
drawTracksNoCap(pool, chosen, rounds) ==
    IF Len(pool) = 0 THEN {chosen}
    ELSE UNION {drawTracksNoCap(spliceOne(pool, idx), Append(chosen, pool[idx]), rounds) :
                    idx \in 1..Len(pool)}

\* while (pool.length > 0 && chosen.length < rounds) { idx = random index;
\* [track] = pool.splice(idx, 1); chosen.push(track) }: the lists it can end with
RECURSIVE drawTracks(_, _, _)
drawTracks(pool, chosen, rounds) ==
    IF Len(pool) = 0 \/ Len(chosen) >= rounds THEN {chosen}
    ELSE UNION {drawTracks(spliceOne(pool, idx), Append(chosen, pool[idx]), rounds) :
                    idx \in 1..Len(pool)}

\* the track-loading effect on its successful path, fetchedTracks being the
\* non-empty list of fetched tracks that have a preview URL
LoadTracksFrom(param, fetchedTracks) ==
    /\ audio.mounted
    /\ loading /\ effect = "pending"
    /\ fetchedTracks # <<>>
    /\ totalRounds' = roundsFor(param)
    /\ tracks' \in drawTracks(fetchedTracks, <<>>, roundsFor(param))
    /\ currentIndex' = 0
    /\ loading' = FALSE
    /\ effect' = "ended"
    /\ UNCHANGED <<guess, triesLeft, revealed, result, round, error, correctCount,
                   wrongCount, audio>>
    /\ UNCHANGED scorerVars
    /\ UNCHANGED auth

LoadTracksWith(param) ==
    \E fetched \in (SUBSET TrackPool) \ {{}} :
        \E fetchedTracks \in Arrangements(fetched, Cardinality(fetched)) :
            LoadTracksFrom(param, fetchedTracks)

LoadFailed == \E param \in NumTracksParams : LoadFailedWith(param)

LoadTracks == \E param \in NumTracksParams : LoadTracksWith(param)

\* onChange of the guess field
SetGuessFrom(values) ==
    /\ audio.mounted
    /\ \E value \in values : guess' = value
    /\ guess' # guess
    /\ UNCHANGED <<tracks, currentIndex, triesLeft, revealed, result, round, totalRounds,
                   loading, error, correctCount, wrongCount, audio, effect>>
    /\ UNCHANGED scorerVars
    /\ UNCHANGED auth

SetGuess == SetGuessFrom(GuessInputs)

\* stopAudio without clearTimeout
stopAudioNoClearTimeout(au) ==
    [au EXCEPT !.objects = IF au.ref # 0 THEN [@ EXCEPT ![au.ref] = FALSE] ELSE @]

\* stopAudio: pauses the Audio object audioRef refers to, clears the timer
\* timeoutRef refers to and sets timeoutRef to null
stopAudio(au) ==
    [au EXCEPT !.objects = IF au.ref # 0 THEN [@ EXCEPT ![au.ref] = FALSE] ELSE @,
               !.pending = IF au.timeoutRef # 0 THEN @ \ {au.timeoutRef} ELSE @,
               !.timeoutRef = 0]

\* the Guess button: disabled={!guess.trim() || revealed}
guessButtonEnabled == trim(guess) # <<>> /\ ~revealed

\* const remaining = triesLeft - 1, without the subtraction
remainingTriesUnchanged(tries) == tries

\* const remaining = triesLeft - 1
remainingTries(tries) == tries - 1

\* remaining <= 0, as remaining < 0
triesExhaustedBelowZero(remaining) == remaining < 0

\* if (remaining <= 0)
triesExhausted(remaining) == remaining <= 0

handleGuessSubmit ==
    /\ audio.mounted
    /\ guessButtonEnabled
    /\ hasCurrentTrack
    /\ UNCHANGED <<tracks, currentIndex, guess, round, totalRounds, loading, error, effect>>
    /\ UNCHANGED scorerVars
    /\ UNCHANGED auth
    /\ LET sim == similarity(guess, currentTrackName)
       IN  IF meetsThreshold(sim)
           THEN /\ result' = "correct"
                /\ revealed' = TRUE
                /\ audio' = stopAudio(audio)
                /\ correctCount' = correctCount + 1
                /\ UNCHANGED <<triesLeft, wrongCount>>
           ELSE LET remaining == remainingTries(triesLeft)
                IN  /\ triesLeft' = remaining
                    /\ result' = "wrong"
                    /\ IF triesExhausted(remaining)
                       THEN /\ revealed' = TRUE
                            /\ audio' = stopAudio(audio)
                            /\ wrongCount' = wrongCount + 1
                       ELSE UNCHANGED <<revealed, wrongCount, audio>>
                    /\ UNCHANGED correctCount

\* the Next button
nextRound ==
    /\ audio.mounted
    /\ round < MaxRound
    /\ audio' = stopAudio(audio)
    /\ guess' = <<>>
    /\ triesLeft' = 3
    /\ revealed' = FALSE
    /\ result' = "idle"
    /\ round' = round + 1
    /\ currentIndex' = Min(currentIndex + 1, Len(tracks) - 1)
    /\ UNCHANGED <<tracks, totalRounds, loading, error, correctCount, wrongCount, effect>>
    /\ UNCHANGED scorerVars
    /\ UNCHANGED auth

\* the Replay button of the recap, shown when !loading && !error && round > totalRounds
Replay ==
    /\ audio.mounted
    /\ ~loading /\ error = "" /\ round > totalRounds
    /\ round' = 1
    /\ correctCount' = 0
    /\ wrongCount' = 0
    /\ currentIndex' = 0
    /\ UNCHANGED <<tracks, guess, triesLeft, revealed, result, totalRounds, loading,
                   error, audio, effect>>
    /\ UNCHANGED scorerVars
    /\ UNCHANGED auth

Init ==
    /\ aRaw = <<>>
    /\ bRaw = <<>>
    /\ pc = "idle"
    /\ ret = NoRet
    /\ NoFrames
    /\ GameConstructed
    /\ NoAuth

Next ==
    \/ LoadNoToken
    \/ LoadFailed
    \/ LoadTracks
    \/ SetGuess
    \/ handleGuessSubmit
    \/ nextRound
    \/ Replay

Spec == Init /\ [][Next]_vars

----------------------------------------------------------------------------
(* The Game component with its audio: Play snippet, Stop, the snippet timer
   and the unmount cleanup.  Audio object k is created by the k-th playSnippet
   and the timer set by that call has id k. *)

\* the Play snippet button: disabled={!canPlay || loading}
playSnippet ==
    /\ audio.mounted
    /\ hasCurrentTrack
    /\ ~loading
    /\ Len(audio.objects) < MaxAudios
    /\ \E started \in BOOLEAN :   \* audio.play() starts playback or is rejected
          LET stopped == stopAudio(audio)
              id == Len(stopped.objects) + 1
          IN  audio' = [stopped EXCEPT !.objects = Append(@, started),
                                       !.ref = id,
                                       !.timeoutRef = id,
                                       !.pending = @ \cup {id}]
    /\ UNCHANGED <<tracks, currentIndex, guess, triesLeft, revealed, result, round,
                   totalRounds, loading, error, correctCount, wrongCount, effect>>
    /\ UNCHANGED scorerVars
    /\ UNCHANGED auth

\* the Stop button
StopButton ==
    /\ audio.mounted
    /\ audio' = stopAudio(audio)
    /\ audio' # audio
    /\ UNCHANGED <<tracks, currentIndex, guess, triesLeft, revealed, result, round,
                   totalRounds, loading, error, correctCount, wrongCount, effect>>
    /\ UNCHANGED scorerVars
    /\ UNCHANGED auth

\* a pending snippet timer fires after SNIPPET_MS: () => { audio.pause() }
SnippetTimeout ==
    /\ \E id \in audio.pending :
          audio' = [audio EXCEPT !.objects = [@ EXCEPT ![id] = FALSE],
                                 !.pending = @ \ {id}]
    /\ UNCHANGED <<tracks, currentIndex, guess, triesLeft, revealed, result, round,
                   totalRounds, loading, error, correctCount, wrongCount, effect>>
    /\ UNCHANGED scorerVars
    /\ UNCHANGED auth

\* the cleanup of the effect, run when the component unmounts
Unmount ==
    /\ audio.mounted
    /\ audio' = [audio EXCEPT
                    !.objects = IF audio.ref # 0 THEN [@ EXCEPT ![audio.ref] = FALSE] ELSE @,
                    !.ref = 0,
                    !.pending = IF audio.timeoutRef # 0 THEN @ \ {audio.timeoutRef} ELSE @,
                    !.timeoutRef = 0,
                    !.mounted = FALSE]
    /\ UNCHANGED <<tracks, currentIndex, guess, triesLeft, revealed, result, round,
                   totalRounds, loading, error, correctCount, wrongCount, effect>>
    /\ UNCHANGED scorerVars
    /\ UNCHANGED auth

\* a guess that matches the first track of TrackPool and one that matches the other
AudioGuesses == {Rep("a", 10), <<"a", "b">>}

InitAudio ==
    /\ aRaw = PresentParam(<<"3">>)
    /\ bRaw = <<>>
    /\ pc = "idle"
    /\ ret = NoRet
    /\ NoFrames
    /\ GameConstructed
    /\ NoAuth

NextAudio ==
    \/ LoadTracksWith(aRaw)
    \/ SetGuessFrom(AudioGuesses)
    \/ handleGuessSubmit
    \/ nextRound
    \/ playSnippet
    \/ StopButton
    \/ SnippetTimeout
    \/ Unmount

SpecAudio == InitAudio /\ [][NextAudio]_vars

----------------------------------------------------------------------------
(* The track-loading effect run await by await, for a page opened with the
   numTracks parameter aRaw.  effect is "pending" while getValidAccessToken is
   awaited, "fetch" while fetch is awaited, "json" while res.json() is awaited,
   "ended" after the finally block. *)

\* the test fetchedTracks.length === 0 left out
noPreviewableSkipped(fetchedTracks) == FALSE

\* if (fetchedTracks.length === 0)
noPreviewable(fetchedTracks) == Len(fetchedTracks) = 0

\* the effect ends in its catch block with the message of the error, then finally
effectThrows(message) ==
    /\ error' = message
    /\ loading' = FALSE
    /\ effect' = "ended"
    /\ UNCHANGED <<tracks, currentIndex>>

\* getValidAccessToken settles; with a token the effect goes on to the fetch
TokenSettles ==
    /\ audio.mounted
    /\ effect = "pending"
    /\ \E token \in BOOLEAN, mode \in {"top", "playlist"}, playlistId \in BOOLEAN :
          IF ~token
          THEN /\ loading' = FALSE
               /\ error' = "Please log in to play."
               /\ effect' = "ended"
               /\ UNCHANGED <<tracks, currentIndex, totalRounds>>
          ELSE /\ totalRounds' = roundsFor(aRaw)
               /\ IF mode = "playlist" /\ ~playlistId
                  THEN effectThrows("No playlist selected. Go back and choose one.")
                  ELSE /\ effect' = "fetch"
                       /\ UNCHANGED <<tracks, currentIndex, loading, error>>
    /\ UNCHANGED <<guess, triesLeft, revealed, result, round, correctCount, wrongCount,
                   audio>>
    /\ UNCHANGED scorerVars
    /\ UNCHANGED auth

\* fetch settles: a response that is ok, a response that is not, or a rejection
FetchSettles ==
    /\ audio.mounted
    /\ effect = "fetch"
    /\ \E outcome \in {"ok", "notOk", "rejected"} :
          IF outcome = "ok"
          THEN /\ effect' = "json"
               /\ UNCHANGED <<tracks, currentIndex, loading, error>>
          ELSE IF outcome = "notOk"
          THEN effectThrows("Failed to load tracks")
          ELSE effectThrows("Failed to fetch")
    /\ UNCHANGED <<guess, triesLeft, revealed, result, round, totalRounds, correctCount,
                   wrongCount, audio>>
    /\ UNCHANGED scorerVars
    /\ UNCHANGED auth

\* res.json() settles: a rejection, or the items, of which fetchedTracks have a
\* preview URL
JsonSettles ==
    /\ audio.mounted
    /\ effect = "json"
    /\ \/ effectThrows("Unexpected end of JSON input")
       \/ \E fetched \in SUBSET TrackPool :
             \E fetchedTracks \in Arrangements(fetched, Cardinality(fetched)) :
                IF noPreviewable(fetchedTracks)
                THEN effectThrows("No previewable tracks found in the selected source.")
                ELSE /\ tracks' \in drawTracks(fetchedTracks, <<>>, totalRounds)
                     /\ currentIndex' = 0
                     /\ loading' = FALSE
                     /\ effect' = "ended"
                     /\ UNCHANGED error
    /\ UNCHANGED <<guess, triesLeft, revealed, result, round, totalRounds, correctCount,
                   wrongCount, audio>>
    /\ UNCHANGED scorerVars
    /\ UNCHANGED auth

EffectStep == TokenSettles \/ FetchSettles \/ JsonSettles

InitEffect ==
    /\ aRaw \in NumTracksParams
    /\ bRaw = <<>>
    /\ pc = "idle"
    /\ ret = NoRet
    /\ NoFrames
    /\ GameConstructed
    /\ NoAuth

\* the player may click Next while the tracks load
NextEffect ==
    \/ TokenSettles
    \/ FetchSettles
    \/ JsonSettles
    \/ nextRound

\* every awaited promise settles
FairSpecEffect == InitEffect /\ [][NextEffect]_vars /\ WF_vars(EffectStep)

----------------------------------------------------------------------------
(* The draw of the session's tracks and the Next button, for a page opened
   with the numTracks parameter aRaw whose source returns the previewable
   tracks bRaw *)

\* names of the tracks of the source
DrawPool == {<<"a">>, <<"b">>, <<"a", "b">>, <<"b", "a">>, <<"a", "a">>, <<"b", "b">>}

InitDraw ==
    /\ aRaw \in NumTracksParams
    /\ bRaw \in UNION {Arrangements(DrawPool, n) : n \in 1..MaxFetched}
    /\ pc = "idle"
    /\ ret = NoRet
    /\ NoFrames
    /\ GameConstructed
    /\ NoAuth

NextDraw ==
    \/ LoadTracksFrom(aRaw, bRaw)
    \/ nextRound

SpecDraw == InitDraw /\ [][NextDraw]_vars

----------------------------------------------------------------------------
(* The track-loading effect of a Game page opened with a given numTracks
   parameter, held in aRaw *)

ParamChars == ParamDigits \cup {".", " ", "a"}

InitLoad ==
    /\ aRaw \in {MissingParam} \cup {PresentParam(t) : t \in StringsUpTo(ParamChars, MaxParamLen)}
    /\ bRaw = <<>>
    /\ pc = "idle"
    /\ ret = NoRet
    /\ NoFrames
    /\ GameConstructed
    /\ NoAuth

NextLoad ==
    \/ LoadNoToken
    \/ LoadFailedWith(aRaw)
    \/ LoadTracksWith(aRaw)

SpecLoad == InitLoad /\ [][NextLoad]_vars

----------------------------------------------------------------------------
(* spotifyAuth (src/src/App.tsx): the token storage, getValidAccessToken and
   handleSpotifyRedirectCallback run await by await.  auth holds the two
   storages (an absent key is the empty value: every read of a key is tested
   for truthiness), the clock, the page URL, the OAuth configuration, one
   frame per call, and the log of the token requests sent and of the writes
   to the storage. *)

safetyWindowMs == 60000

\* Date.now() at the start of a run, and the time that passes between two readings
BaseNow == 1000000
TickMs == 30000

\* localStorage and sessionStorage without any of the five keys
EmptyStorage == [access |-> "", expiresAt |-> <<>>, refresh |-> "", verifier |-> "", state |-> ""]

\* the page URL after history.replaceState({}, "", "/")
CleanUrl == [hasCode |-> FALSE, code |-> "", state |-> ""]

NoTokens == [access_token |-> "", expires_in |-> 0, refresh_token |-> ""]

\* the token responses the server can give to the request of call c: a fresh
\* access token, a lifetime in seconds, and a new refresh token or none
AccessTokens == <<"A1", "A2">>
TokenResponses(c) ==
    [access_token : {AccessTokens[c]}, expires_in : {60, 120}, refresh_token : {"", "R1"}]

\* a value is truthy: a number neither NaN nor 0
truthyNumber(x) == ~x.nan /\ (x.int # 0 \/ x.frac)

\* getAccessTokenExpiryMs: raw ? Number(raw) : null (null as NaN: both are falsy
\* and both make now < expiry false)
getAccessTokenExpiryMs(storage) ==
    IF storage.expiresAt # <<>> THEN toNumber(storage.expiresAt) ELSE NaN

\* the stored token is returned although now has reached the stored expiry
tokenStillValidAtExpiry(access, expiry, now) ==
    access # "" /\ truthyNumber(expiry) /\ now <= expiry.int

\* access && expiry && now < expiry
tokenStillValid(access, expiry, now) ==
    access # "" /\ truthyNumber(expiry) /\ (now < expiry.int \/ (now = expiry.int /\ expiry.frac))

\* storeTokens
storeTokens(storage, tokens, now) ==
    [storage EXCEPT !.access = tokens.access_token,
                    !.expiresAt = numberString(now + tokens.expires_in * 1000 - safetyWindowMs),
                    !.refresh = IF tokens.refresh_token # "" THEN tokens.refresh_token ELSE @]

\* clearAuthStorage
clearAuthStorage(storage) == EmptyStorage

\* sessionStorage.removeItem of the PKCE verifier and of the state
removePkce(storage) == [storage EXCEPT !.verifier = "", !.state = ""]

\* the state parameter of the URL is not compared with the stored state
stateMatchesUnchecked(state, expectedState) == state # ""

\* !(!state || !expectedState || state !== expectedState)
stateMatches(state, expectedState) ==
    state # "" /\ expectedState # "" /\ state = expectedState

AuthCalls == DOMAIN auth.calls

NewCall(fn) ==
    [fn |-> fn, pc |-> "start", result |-> "", grant |-> "",
     entry |-> [storage |-> EmptyStorage, now |-> 0, url |-> CleanUrl]]

logEntry(event, c, grant, credential) ==
    [event |-> event, call |-> c, grant |-> grant, credential |-> credential,
     urlState |-> auth.url.state, storedState |-> auth.storage.state,
     tokens |-> NoTokens, now |-> auth.now]

gameUntouched == UNCHANGED <<scorerVars, gameVars>>

\* getValidAccessToken up to its first await, with the part of
\* refreshAccessToken that runs before the fetch
getValidAccessToken(c) ==
    /\ auth.used
    /\ auth.calls[c].fn = "getValidAccessToken"
    /\ auth.calls[c].pc = "start"
    /\ LET access == auth.storage.access
           expiry == getAccessTokenExpiryMs(auth.storage)
           now == auth.now
           refresh == auth.storage.refresh
           read == [auth.calls[c] EXCEPT
                       !.entry = [storage |-> auth.storage, now |-> now, url |-> auth.url]]
       IN  IF tokenStillValid(access, expiry, now)
           THEN auth' = [auth EXCEPT !.calls[c] = [read EXCEPT !.pc = "done", !.result = access]]
           ELSE IF refresh # ""
           THEN IF ~auth.configured
                THEN \* refreshAccessToken throws "Missing client or refresh token"
                     auth' = [auth EXCEPT !.calls[c] = [read EXCEPT !.pc = "rejected"]]
                ELSE auth' = [auth EXCEPT
                         !.calls[c] = [read EXCEPT !.pc = "awaitFetch", !.grant = "refresh_token"],
                         !.log = Append(@, logEntry("request", c, "refresh_token", refresh))]
           ELSE auth' = [auth EXCEPT !.calls[c] = [read EXCEPT !.pc = "done", !.result = ""]]
    /\ gameUntouched

\* handleSpotifyRedirectCallback up to its first await, with the part of
\* exchangeCodeForTokens that runs before the fetch
handleSpotifyRedirectCallback(c) ==
    /\ auth.used
    /\ auth.calls[c].fn = "handleSpotifyRedirectCallback"
    /\ auth.calls[c].pc = "start"
    /\ LET url == auth.url
           expectedState == auth.storage.state
           verifier == auth.storage.verifier
           read == [auth.calls[c] EXCEPT
                       !.entry = [storage |-> auth.storage, now |-> auth.now, url |-> url]]
       IN  IF ~url.hasCode
           THEN auth' = [auth EXCEPT !.calls[c] = [read EXCEPT !.pc = "done", !.result = "false"]]
           ELSE IF ~stateMatches(url.state, expectedState)
           THEN auth' = [auth EXCEPT
                    !.storage = clearAuthStorage(@),
                    !.url = CleanUrl,
                    !.calls[c] = [read EXCEPT !.pc = "done", !.result = "true"],
                    !.log = Append(@, logEntry("cleared", c, "", ""))]
           ELSE IF url.code = ""
           THEN \* "Missing code" is thrown and caught at once
                auth' = [auth EXCEPT
                    !.storage = clearAuthStorage(@),
                    !.url = CleanUrl,
                    !.calls[c] = [read EXCEPT !.pc = "done", !.result = "true"],
                    !.log = Append(@, logEntry("cleared", c, "", ""))]
           ELSE IF ~auth.configured \/ verifier = ""
           THEN \* exchangeCodeForTokens throws "Missing OAuth configuration or PKCE verifier"
                auth' = [auth EXCEPT !.calls[c] = [read EXCEPT !.pc = "rejected"]]
           ELSE auth' = [auth EXCEPT
                    !.calls[c] = [read EXCEPT !.pc = "awaitFetch", !.grant = "authorization_code"],
                    !.log = Append(@, logEntry("request", c, "authorization_code", verifier))]
    /\ gameUntouched

\* the fetch of the token endpoint settles: a response that is ok, a response
\* that is not, or a rejection
tokenFetchSettles(c) ==
    /\ auth.used
    /\ auth.calls[c].pc = "awaitFetch"
    /\ \E next \in {"awaitJson", "awaitText", "rejected"} :
           auth' = [auth EXCEPT !.calls[c].pc = next]
    /\ gameUntouched

\* response.json() settles: the tokens are stored (and after an exchange the
\* PKCE values removed), or the body is not JSON
tokenJsonSettles(c) ==
    /\ auth.used
    /\ auth.calls[c].pc = "awaitJson"
    /\ \/ \E tokens \in TokenResponses(c) :
              LET stored == storeTokens(auth.storage, tokens, auth.now)
              IN  auth' = [auth EXCEPT
                      !.storage = IF auth.calls[c].grant = "authorization_code"
                                  THEN removePkce(stored) ELSE stored,
                      !.calls[c].pc = "resolved",
                      !.log = Append(@, [logEntry("stored", c, auth.calls[c].grant, "")
                                             EXCEPT !.tokens = tokens])]
       \/ auth' = [auth EXCEPT !.calls[c].pc = "rejected"]
    /\ gameUntouched

\* response.text() settles and "Token exchange failed" / "Token refresh failed"
\* is thrown
tokenTextSettles(c) ==
    /\ auth.used
    /\ auth.calls[c].pc = "awaitText"
    /\ auth' = [auth EXCEPT !.calls[c].pc = "rejected"]
    /\ gameUntouched

\* the caller resumes after the awaited promise resolved
tokenReturn(c) ==
    /\ auth.used
    /\ auth.calls[c].pc = "resolved"
    /\ IF auth.calls[c].fn = "getValidAccessToken"
       THEN auth' = [auth EXCEPT !.calls[c].pc = "done",
                                 !.calls[c].result = auth.storage.access]
       ELSE auth' = [auth EXCEPT !.calls[c].pc = "done",
                                 !.calls[c].result = "true",
                                 !.url = CleanUrl]
    /\ gameUntouched

\* the caller resumes in its catch block after the awaited promise rejected
tokenCatch(c) ==
    /\ auth.used
    /\ auth.calls[c].pc = "rejected"
    /\ auth' = [auth EXCEPT
           !.storage = clearAuthStorage(@),
           !.url = IF auth.calls[c].fn = "getValidAccessToken" THEN @ ELSE CleanUrl,
           !.calls[c].pc = "done",
           !.calls[c].result = IF auth.calls[c].fn = "getValidAccessToken" THEN "" ELSE "true",
           !.log = Append(@, logEntry("cleared", c, "", ""))]
    /\ gameUntouched

\* time passes
Tick ==
    /\ auth.used
    /\ auth.now < BaseNow + MaxTicks * TickMs
    /\ auth' = [auth EXCEPT !.now = @ + TickMs]
    /\ gameUntouched

\* what the storage can hold when a call starts: tokens of an earlier login or
\* none, an expiry written by storeTokens or unreadable, the PKCE values of a
\* login under way or none
StoredExpiries ==
    {<<>>, <<"0">>, <<"a">>} \cup {numberString(BaseNow + k * TickMs) : k \in 0..MaxTicks}

Storages ==
    [access : {"", "A0"}, expiresAt : StoredExpiries, refresh : {"", "R0"},
     verifier : {"", "V"}, state : {"", "S"}]

AuthIdle ==
    /\ aRaw = <<>>
    /\ bRaw = <<>>
    /\ pc = "idle"
    /\ ret = NoRet
    /\ NoFrames
    /\ GameConstructed

(* One call of getValidAccessToken *)
InitToken ==
    /\ AuthIdle
    /\ auth \in [used : {TRUE}, storage : Storages, now : {BaseNow + TickMs}, url : {CleanUrl},
                 configured : BOOLEAN, calls : {<<NewCall("getValidAccessToken")>>},
                 log : {<<>>}]

NextToken ==
    \/ \E c \in AuthCalls :
           \/ getValidAccessToken(c)
           \/ tokenFetchSettles(c)
           \/ tokenJsonSettles(c)
           \/ tokenTextSettles(c)
           \/ tokenReturn(c)
           \/ tokenCatch(c)
    \/ Tick

SpecToken == InitToken /\ [][NextToken]_vars

(* Two calls of getValidAccessToken, in every interleaving of their awaits *)
InitTokens ==
    /\ AuthIdle
    /\ auth \in [used : {TRUE}, storage : Storages, now : {BaseNow + TickMs}, url : {CleanUrl},
                 configured : BOOLEAN,
                 calls : {<<NewCall("getValidAccessToken"), NewCall("getValidAccessToken")>>},
                 log : {<<>>}]

SpecTokens == InitTokens /\ [][NextToken]_vars

(* Two invocations of handleSpotifyRedirectCallback on the page the
   authorization server redirected to *)
CallbackUrls ==
    {CleanUrl} \cup [hasCode : {TRUE}, code : {"", "C"}, state : {"", "S", "X"}]

CallbackStorages ==
    {s \in Storages : s.expiresAt \in {<<>>, numberString(BaseNow)}
                      /\ (s.access = "") = (s.expiresAt = <<>>)}

InitCallback ==
    /\ AuthIdle
    /\ auth \in [used : {TRUE}, storage : CallbackStorages, now : {BaseNow + TickMs},
                 url : CallbackUrls, configured : BOOLEAN,
                 calls : {<<NewCall("handleSpotifyRedirectCallback"),
                            NewCall("handleSpotifyRedirectCallback")>>},
                 log : {<<>>}]

NextCallback ==
    \/ \E c \in AuthCalls :
           \/ handleSpotifyRedirectCallback(c)
           \/ tokenFetchSettles(c)
           \/ tokenJsonSettles(c)
           \/ tokenTextSettles(c)
           \/ tokenReturn(c)
           \/ tokenCatch(c)
    \/ Tick

SpecCallback == InitCallback /\ [][NextCallback]_vars

----------------------------------------------------------------------------
(* Reference definitions used by the properties *)

\* The full table of the edit-distance recurrence: row i of the table, built from
\* the row above it; row[k + 1] is distance(i, k).
RECURSIVE TableRowFrom(_, _, _, _, _, _)
TableRowFrom(a, b, i, j, above, row) ==
    IF j > Len(b) THEN row
    ELSE LET cell == IF a[i] = b[j] THEN above[j]
                     ELSE 1 + Min3(above[j + 1], row[j], above[j])
         IN  \* always true: the test makes TLC evaluate the cell before going on
             IF cell >= 0 THEN TableRowFrom(a, b, i, j + 1, above, Append(row, cell))
             ELSE row

RECURSIVE TableFrom(_, _, _, _)
TableFrom(a, b, i, table) ==
    IF i > Len(a) THEN table
    ELSE LET row == TableRowFrom(a, b, i, 1, table[Len(table)], <<i>>)
         IN  IF Len(row) > 0 THEN TableFrom(a, b, i + 1, Append(table, row)) ELSE table

\* distance(Len(a), Len(b)) with distance(i, 0) = i and distance(0, j) = j
tableDistance(a, b) ==
    TableFrom(a, b, 1, <<[k \in 1..(Len(b) + 1) |-> k - 1]>>)[Len(a) + 1][Len(b) + 1]

IsAlphanumeric(c) == c \in LowerLetters \cup UpperLetters \cup Digits

InsertAt(s, q, t) == SubSeq(s, 1, q) \o t \o SubSeq(s, q + 1, Len(s))
RemoveAt(s, p) == SubSeq(s, 1, p - 1) \o SubSeq(s, p + 1, Len(s))
ReplaceAt(s, p, c) == [s EXCEPT ![p] = c]

swapCase(c) ==
    IF c = "a" THEN "A" ELSE IF c = "A" THEN "a"
    ELSE IF c = "b" THEN "B" ELSE IF c = "B" THEN "b" ELSE c

One == <<1, 1>>

----------------------------------------------------------------------------
(* C1: a submitted guess is judged correct exactly when its similarity to the
   current track's name is at least 0.7; with d the edit distance of the two
   normalized strings and L > 0 the length of the longer one, exactly when
   10 * d <= 3 * L. *)

withinThreshold(g, t) ==
    LET a == normalizeTitle(g)
        b == normalizeTitle(t)
        d == tableDistance(a, b)
        L == Max(Len(a), Len(b))
    IN  IF L = 0 THEN TRUE ELSE 10 * d <= 3 * L

C1_ThresholdVerdict ==
    [][handleGuessSubmit =>
          /\ (result' = "correct") <=> withinThreshold(guess, currentTrackName)
          /\ (result' = "wrong") <=> ~withinThreshold(guess, currentTrackName)]_vars

\* a guess at distance 3 from a 10-character title has been judged correct
C1_Witness ==
    /\ hasCurrentTrack
    /\ result = "correct"
    /\ Len(normalizeTitle(currentTrackName)) = 10
    /\ Len(normalizeTitle(guess)) = 10
    /\ tableDistance(normalizeTitle(guess), normalizeTitle(currentTrackName)) = 3

----------------------------------------------------------------------------
(* C2: similarity returns a value in [0, 1]: the edit distance of the two
   normalized strings is at least 0 and at most the length of the longer one. *)

C2_SimilarityInUnitInterval ==
    pc = "similarity" =>
        LET a == normalizeTitle(aRaw)
            b == normalizeTitle(bRaw)
            d == levenshteinDistance(a, b)
        IN  /\ ret.value[2] > 0
            /\ 0 <= ret.value[1]
            /\ ret.value[1] <= ret.value[2]
            /\ 0 <= d
            /\ d <= Max(Len(a), Len(b))

\* two non-empty normalized strings of different lengths at maximal distance
C2_Witness ==
    /\ pc = "similarity"
    /\ ret.locals.distComputed
    /\ Len(ret.locals.a) = 2
    /\ Len(ret.locals.b) = 3
    /\ ret.locals.dist = 3
    /\ ret.value[1] = 0

----------------------------------------------------------------------------
(* C3: similarity(a, b) is 1 exactly when the normalized forms of a and b are
   equal; similarity(s, s) is 1 for every s. *)

C3_OneIffSameNormalForm ==
    pc = "similarity" =>
        /\ RatEq(ret.value, One) <=> (normalizeTitle(aRaw) = normalizeTitle(bRaw))
        /\ RatEq(similarity(aRaw, aRaw), One)
        /\ RatEq(similarity(bRaw, bRaw), One)

\* two different raw strings with the same non-empty normalized form score 1
C3_Witness ==
    /\ pc = "similarity"
    /\ aRaw # bRaw
    /\ Len(aRaw) # Len(bRaw)
    /\ Len(ret.locals.a) = 3
    /\ ret.locals.a = ret.locals.b
    /\ ret.value = <<3, 3>>

----------------------------------------------------------------------------
(* C4: similarity is symmetric, and so is levenshteinDistance on the normalized
   strings, also when their lengths differ. *)

C4_Symmetric ==
    pc = "similarity" =>
        /\ RatEq(ret.value, similarity(bRaw, aRaw))
        /\ levenshteinDistance(normalizeTitle(aRaw), normalizeTitle(bRaw))
              = levenshteinDistance(normalizeTitle(bRaw), normalizeTitle(aRaw))

\* normalized strings of different lengths, neither equal nor maximally distant
C4_Witness ==
    /\ pc = "similarity"
    /\ Len(ret.locals.a) = 2
    /\ Len(ret.locals.b) = 4
    /\ ret.locals.dist = 3
    /\ ret.value = <<1, 4>>

----------------------------------------------------------------------------
(* C5: levenshteinDistance(a, b), computed with one rolling row and the saved
   diagonal, equals the value of the full-table recurrence, for all strings
   including empty ones. *)

\* the strings one insertion, deletion or substitution away from s; a shortest
\* sequence of edits between two strings can be ordered so that no string in it
\* is longer than the longer of the two, so longer strings are left out
EditNeighbours(s) ==
    {RemoveAt(s, p) : p \in 1..Len(s)}
        \cup {ReplaceAt(s, p, c) : p \in 1..Len(s), c \in LevChars}
        \cup (IF Len(s) < MaxLevLen
              THEN {InsertAt(s, q, <<c>>) : q \in 0..Len(s), c \in LevChars}
              ELSE {})

\* the strings at most k edits away from s
RECURSIVE EditBall(_, _)
EditBall(s, k) ==
    IF k = 0 THEN {s}
    ELSE LET inner == EditBall(s, k - 1)
         IN  inner \cup UNION {EditNeighbours(t) : t \in inner}

\* the minimum number of edits turning a into b
MinEdits ==
    [a \in StringsUpTo(LevChars, MaxLevLen) |->
        [b \in StringsUpTo(LevChars, MaxLevLen) |->
            CHOOSE k \in 0..MaxLevLen :
                /\ b \in EditBall(a, k)
                /\ \A h \in 0..(k - 1) : b \notin EditBall(a, h)]]

C5_RollingRowEqualsFullTable ==
    pc = "levenshteinDistance" =>
        /\ ret.value = tableDistance(aRaw, bRaw)
        /\ ret.value = MinEdits[aRaw][bRaw]

\* strings of different lengths that need a substitution and insertions
C5_Witness ==
    /\ pc = "levenshteinDistance"
    /\ Len(aRaw) = 3
    /\ Len(bRaw) = 5
    /\ aRaw[1] # bRaw[1]
    /\ ret.value = 3

----------------------------------------------------------------------------
(* C6: the output of normalizeTitle holds only a-z, 0-9 and spaces, has no two
   adjacent spaces, and neither starts nor ends with a space. *)

C6_NormalizedForm ==
    pc = "normalizeTitle" =>
        LET o == ret.value
        IN  /\ \A i \in 1..Len(o) : o[i] \in LowerLetters \cup Digits \cup {" "}
            /\ \A i \in 1..(Len(o) - 1) : ~(o[i] = " " /\ o[i + 1] = " ")
            /\ Len(o) > 0 => (o[1] # " " /\ o[Len(o)] # " ")

\* an input with leading whitespace and a tab between two letters
C6_Witness ==
    /\ pc = "normalizeTitle"
    /\ aRaw = <<" ", "A", "\t", "b">>
    /\ ret.value = <<"a", " ", "b">>

----------------------------------------------------------------------------
(* C7: every parenthesized or bracketed substring is removed through its matching
   closing delimiter, so no text inside a group, nested groups included, is left
   in the output. *)

\* the position of the closing delimiter that matches the opening one at i (counting
\* nested groups of the same kind), 0 when there is none
RECURSIVE MatchingCloseFrom(_, _, _, _, _)
MatchingCloseFrom(s, j, open, close, depth) ==
    IF j > Len(s) THEN 0
    ELSE IF s[j] = close
         THEN IF depth = 1 THEN j ELSE MatchingCloseFrom(s, j + 1, open, close, depth - 1)
         ELSE IF s[j] = open THEN MatchingCloseFrom(s, j + 1, open, close, depth + 1)
         ELSE MatchingCloseFrom(s, j + 1, open, close, depth)

InsideGroup(s, p) ==
    \E i \in 1..(p - 1) :
        \/ s[i] = "(" /\ MatchingCloseFrom(s, i + 1, "(", ")", 1) > p
        \/ s[i] = "[" /\ MatchingCloseFrom(s, i + 1, "[", "]", 1) > p

C7_NoGroupTextSurvives ==
    pc = "normalizeTitle" =>
        \A p \in 1..Len(aRaw) :
            (IsAlphanumeric(aRaw[p]) /\ InsideGroup(aRaw, p))
                => p \notin keptPositions(toLowerCase(aRaw))

----------------------------------------------------------------------------
(* C8: in a string whose delimiters form separate, non-nested groups, each group
   is removed and the text between and around the groups is kept; adding such a
   group to a string, anywhere but after an opening delimiter of its kind that is
   still unclosed there, does not change the normalized form of the string, nor
   its similarity to another string. *)

\* the text outside the groups of s, read from position i; inside is "" outside a
\* group and otherwise the closing delimiter awaited.  <<"nested">> is appended
\* when the delimiters of s do not form separate, non-nested groups.
RECURSIVE OutsideFrom(_, _, _)
OutsideFrom(s, i, inside) ==
    IF i > Len(s) THEN (IF inside = "" THEN <<>> ELSE <<"nested">>)
    ELSE IF inside = ""
         THEN IF s[i] = "(" THEN OutsideFrom(s, i + 1, ")")
              ELSE IF s[i] = "[" THEN OutsideFrom(s, i + 1, "]")
              ELSE IF s[i] \in Delimiters THEN <<"nested">>
              ELSE <<s[i]>> \o OutsideFrom(s, i + 1, "")
         ELSE IF s[i] = inside THEN OutsideFrom(s, i + 1, "")
              ELSE IF s[i] \in Delimiters THEN <<"nested">>
              ELSE OutsideFrom(s, i + 1, inside)

HasSeparateGroups(s) == \A k \in 1..Len(OutsideFrom(s, 1, "")) : OutsideFrom(s, 1, "")[k] # "nested"

\* no opening delimiter at or before position q of s is still unclosed at q: a
\* group added after position q does not follow an unclosed opening delimiter
ClosedBefore(s, q, open, close) ==
    \A i \in 1..q : s[i] = open => \E j \in (i + 1)..q : s[j] = close

Annotations == {<<"(", "b", ")">>, <<"[", "b", " ", "1", "]">>, <<"(", ")">>}

----------------------------------------------------------------------------
(* C9: an opening delimiter with no later closing delimiter of its kind, and a
   closing delimiter with no earlier opening delimiter of its kind, removes no
   text: the result is the same as without that delimiter character. *)

IsUnmatchedAt(s, p) ==
    \/ s[p] = "(" /\ \A j \in (p + 1)..Len(s) : s[j] # ")"
    \/ s[p] = "[" /\ \A j \in (p + 1)..Len(s) : s[j] # "]"
    \/ s[p] = ")" /\ \A j \in 1..(p - 1) : s[j] # "("
    \/ s[p] = "]" /\ \A j \in 1..(p - 1) : s[j] # "["

C9_UnmatchedDelimiterRemovesNoText ==
    pc = "normalizeTitle" =>
        \A p \in 1..Len(aRaw) :
            IsUnmatchedAt(aRaw, p)
                => /\ ret.value = normalizeTitle(RemoveAt(aRaw, p))
                   /\ keptPositions(RemoveAt(aRaw, p))
                         = {IF k < p THEN k ELSE k - 1 : k \in keptPositions(aRaw) \ {p}}

\* "a (a" gives "a a"
C9_Witness ==
    /\ pc = "normalizeTitle"
    /\ aRaw = <<"a", " ", "(", "a">>
    /\ ret.value = <<"a", " ", "a">>

----------------------------------------------------------------------------
(* C10: the result of normalizeTitle is unchanged by changing the case of a
   letter, by inserting a punctuation character anywhere, and by lengthening a
   run of whitespace; two strings that differ in these ways have similarity 1. *)

Variants(s) ==
    {ReplaceAt(s, p, swapCase(s[p])) : p \in 1..Len(s)}
        \cup {InsertAt(s, q, <<"!">>) : q \in 0..Len(s)}
        \cup {InsertAt(s, p, <<w>>) : p \in {k \in 1..Len(s) : s[k] \in Whitespace},
                                       w \in Whitespace}

C10_NoiseInsensitive ==
    pc = "normalizeTitle" =>
        \A v \in Variants(aRaw) :
            /\ normalizeTitle(v) = ret.value
            /\ RatEq(similarity(aRaw, v), One)

\* an input with an upper-case letter and a run of two whitespace characters
C10_Witness ==
    /\ pc = "normalizeTitle"
    /\ aRaw = <<"A", " ", "\t", "b">>
    /\ ret.value = <<"a", " ", "b">>

----------------------------------------------------------------------------
(* C11: whenever a similarity call reaches the division, the longer of the two
   normalized strings has at least one character, the "|| 1" fallback is not
   taken, and the value returned is exactly 1 - dist / max(len(a), len(b)). *)

C11_DenominatorNeverZero ==
    (pc = "similarity" /\ ret.locals.distComputed) =>
        LET a == ret.locals.a
            b == ret.locals.b
            L == Max(Len(a), Len(b))
        IN  /\ L >= 1
            /\ ~ret.locals.fallback
            /\ ret.locals.maxLen = L
            /\ ret.value = <<L - tableDistance(a, b), L>>

\* the division was reached with a denominator of exactly 1
C11_Witness ==
    /\ pc = "similarity"
    /\ ret.locals.distComputed
    /\ ret.locals.a = <<>>
    /\ Len(ret.locals.b) = 1
    /\ ret.locals.maxLen = 1

(* C12: when the first argument normalizes to the empty string and the second
   does not, similarity returns exactly 0 and the value does not meet the 0.7
   threshold. *)

C12_EmptyGuessScoresZero ==
    (pc = "similarity" /\ normalizeTitle(aRaw) = <<>> /\ normalizeTitle(bRaw) # <<>>) =>
        /\ ret.value[1] = 0
        /\ ret.value[2] > 0
        /\ ~meetsThreshold(ret.value)

\* a punctuation-only guess was scored against a three-character title
C12_Witness ==
    /\ pc = "similarity"
    /\ aRaw = <<"!">>
    /\ Len(normalizeTitle(bRaw)) = 3
    /\ ret.value = <<0, 3>>

(* C13: when both raw strings normalize to the empty string, similarity returns
   exactly 1 and no edit distance is computed. *)

C13_BothEmptyScoresOne ==
    (pc = "similarity" /\ normalizeTitle(aRaw) = <<>> /\ normalizeTitle(bRaw) = <<>>) =>
        /\ ret.value = <<1, 1>>
        /\ ~ret.locals.distComputed

\* a bracket-only string was scored against a punctuation-only string
C13_Witness ==
    /\ pc = "similarity"
    /\ aRaw = <<"(", "a", ")">>
    /\ bRaw = <<"\t", "!">>
    /\ ret.value = <<1, 1>>

(* C14: normalizeTitle, levenshteinDistance and similarity are total: a call
   never reads outside the rolling row or outside either string, every call
   that has started reaches its return, and the value returned is a number
   num / den with den >= 1 computed from two normalized strings. *)

IsNormalized(s) ==
    /\ \A k \in 1..Len(s) : s[k] \in LowerLetters \cup Digits \cup {" "}
    /\ s = trim(s)

Returned(f) == frames[f].pc = "done"

C14_Total ==
    /\ [](\A f \in FrameIds :
             /\ ~frames[f].oob
             /\ frames[f].pc \in {"start", "check", "lev", "outer", "inner", "divide",
                                  "done"}
             /\ frames[f].pc = "outer" => frames[f].i \in 1..(Len(frames[f].a) + 1)
             /\ frames[f].pc = "inner" =>
                   /\ frames[f].i \in 1..Len(frames[f].a)
                   /\ frames[f].j \in 1..(Len(frames[f].b) + 1)
                   /\ DOMAIN heap[frames[f].dp] = 0..Len(frames[f].b)
             /\ Returned(f) =>
                   /\ IsNormalized(frames[f].a) /\ IsNormalized(frames[f].b)
                   /\ frames[f].value[2] >= 1
                   /\ frames[f].value[1] \in 0..frames[f].value[2])
    /\ <>(\A f \in FrameIds : Returned(f))

\* a call on two strings of two characters has gone through both loops and returned
C14_Witness ==
    /\ Returned(1)
    /\ Len(frames[1].a) = 2
    /\ Len(frames[1].b) = 2
    /\ frames[1].i = 3
    /\ frames[1].j = 3
    /\ frames[1].dist = 2

(* C15: a similarity call retains no state and has no side effect: a step of a
   call changes none of the Game's state variables, nothing of another call's
   locals and no array but its own, and the value a call returns is the value
   of similarity on its two arguments whatever calls ran before it. *)

C15_NoStateNoSideEffect ==
    [][\A f \in FrameIds : Step(f) =>
          /\ UNCHANGED gameVars
          /\ UNCHANGED <<aRaw, bRaw, pc, ret>>
          /\ \A g \in FrameIds \ {f} : frames'[g] = frames[g]
          /\ \A k \in DOMAIN heap : k # frames'[f].dp => heap'[k] = heap[k]
          /\ frames'[f].pc = "done" =>
                frames'[f].value = similarity(frames[f].aRaw, frames[f].bRaw)]_vars

\* the same pair was scored twice, the first call allocating its row after the
\* second call allocated its own, and both returned 1 - 1/2
C15_Witness ==
    /\ Returned(1) /\ Returned(2)
    /\ frames[1].aRaw = frames[2].aRaw
    /\ frames[1].bRaw = frames[2].bRaw
    /\ frames[1].dp = 2
    /\ frames[2].dp = 1
    /\ frames[1].value = <<1, 2>>
    /\ frames[2].value = <<1, 2>>

(* C16: levenshteinDistance is re-entrant: when two similarity calls are
   interleaved statement by statement in any order, no two calls refer to the
   same rolling row, each row has the length its own call gave it, and each
   call returns the value it returns when run alone. *)

C16_Reentrant ==
    \A f \in FrameIds :
        /\ frames[f].dp # 0 =>
              /\ \A g \in FrameIds \ {f} : frames[g].dp # frames[f].dp
              /\ DOMAIN heap[frames[f].dp] = 0..Len(frames[f].b)
        /\ Returned(f) =>
              /\ frames[f].value = similarity(frames[f].aRaw, frames[f].bRaw)
              /\ frames[f].dp # 0 =>
                    /\ frames[f].dist = tableDistance(frames[f].a, frames[f].b)
                    /\ heap[frames[f].dp][Len(frames[f].b)] = frames[f].dist

\* both calls are in the middle of their loops at the same time
C16_Witness ==
    /\ frames[1].pc = "inner" /\ frames[1].i = 2 /\ frames[1].j = 2
    /\ frames[2].pc = "inner" /\ frames[2].i = 1 /\ frames[2].j = 2
    /\ frames[1].dp = 2

(* C17: a guess submission is judged by the scorer applied to the guess and the
   current track's name: a submission that does not match decrements triesLeft
   by exactly one and leaves correctCount unchanged; a submission that matches
   leaves triesLeft and wrongCount unchanged and increments correctCount by
   exactly one. *)

identifies(g, text) ==
    LET ng == normalizeTitle(g)
        nt == normalizeTitle(text)
    IN  \/ withinThreshold(g, text)
        \/ \E k \in 1..(Len(ng) - Len(nt) + 1) : SubSeq(ng, k, k + Len(nt) - 1) = nt

C18_TitleAndArtist ==
    [][(handleGuessSubmit /\ result' = "correct") =>
          /\ identifies(guess, currentTrackName)
          /\ identifies(guess, trackArtists(currentTrackName))]_vars

(* C19: totalRounds is always 3, 10 or 20; once the loading effect has passed
   setTotalRounds it is the count the numTracks parameter denotes when that is
   3, 10 or 20, and 10 for any other, missing or non-numeric parameter. *)

CountTexts == {<<"3">>, <<"1", "0">>, <<"2", "0">>}

\* text is count, with leading and trailing spaces, leading zeros and a zero
\* fractional part allowed
DenotesCount(text, count) ==
    \E l, r, k, m \in 0..Len(text) :
        \E suffix \in {<<>>, <<".">> \o Rep("0", m)} :
            text = Rep(" ", l) \o Rep("0", k) \o count \o suffix \o Rep(" ", r)

expectedRounds(param) ==
    IF param.present /\ \E count \in CountTexts : DenotesCount(param.text, count)
    THEN digitsValue(CHOOSE count \in CountTexts : DenotesCount(param.text, count))
    ELSE 10

C19_TotalRounds ==
    /\ totalRounds \in {3, 10, 20}
    /\ (loading \/ error = "Please log in to play.") => totalRounds = 10
    /\ (~loading /\ error # "Please log in to play.") =>
          totalRounds = expectedRounds(aRaw)

\* a page opened with numTracks=20 has loaded its tracks for 20 rounds
C19_Witness ==
    /\ ~loading
    /\ error = ""
    /\ aRaw = PresentParam(<<"2", "0">>)
    /\ totalRounds = 20
    /\ tracks # <<>>

(* C20: the answer is revealed by exhaustion exactly at the miss that spends
   the last of the three tries: triesLeft stays within 0..3, a miss with more
   than one try left leaves revealed false and wrongCount unchanged, the miss
   with one try left sets revealed and increments wrongCount by exactly one,
   and revealed holds exactly when the round was matched or no try is left. *)

C20_RevealAtThirdMiss ==
    /\ [](/\ triesLeft \in 0..3
          /\ revealed <=> (result = "correct" \/ triesLeft = 0)
          /\ triesLeft = 0 => result = "wrong")
    /\ [][(handleGuessSubmit /\ result' = "wrong") =>
             /\ ~revealed
             /\ triesLeft' = triesLeft - 1
             /\ triesLeft' >= 0
             /\ IF triesLeft = 1
                THEN revealed' /\ wrongCount' = wrongCount + 1
                ELSE ~revealed' /\ wrongCount' = wrongCount]_vars

\* the third miss of the first round: no try left, answer revealed, one round
\* scored wrong
C20_Witness ==
    /\ round = 1
    /\ triesLeft = 0
    /\ revealed
    /\ result = "wrong"
    /\ wrongCount = 1
    /\ correctCount = 0

(* C21: in every state of the Game the rounds scored so far are at most the
   rounds played and at most the rounds of the session:
   correctCount + wrongCount <= min(round, totalRounds). *)

C21_ScoredRoundsBounded == correctCount + wrongCount <= Min(round, totalRounds)

(* C22: at most one snippet timer is pending and at most one Audio object is
   playing; after stopAudio (the Stop button), after nextRound, after a guess
   that reveals the answer and after unmount no snippet timer is pending and
   no Audio object is playing. *)

playingAudios == {k \in 1..Len(audio.objects) : audio.objects[k]}

C22_AudioReleased ==
    /\ [](/\ Cardinality(audio.pending) <= 1
          /\ Cardinality(playingAudios) <= 1
          /\ audio.pending \subseteq {audio.timeoutRef}
          /\ playingAudios \subseteq {audio.ref}
          /\ ~audio.mounted => audio.pending = {} /\ playingAudios = {})
    /\ [][(\/ StopButton
           \/ nextRound
           \/ handleGuessSubmit /\ revealed'
           \/ Unmount) =>
              /\ audio'.pending = {}
              /\ \A k \in 1..Len(audio'.objects) : ~audio'.objects[k]]_vars

\* a third snippet was started while the second was playing, then a guess revealed
\* the answer: three Audio objects, none playing, no timer pending
C22_Witness ==
    /\ Len(audio.objects) = 3
    /\ audio.ref = 3
    /\ revealed
    /\ audio.pending = {}
    /\ playingAudios = {}
    /\ audio.mounted

(* C23: the chosen tracks are drawn without replacement from the fetched
   tracks that have a preview URL: no entry is repeated, every entry is a
   fetched track, the length is min(totalRounds, number of fetched tracks), and
   the current index stays within the chosen list after any number of Next
   clicks. *)

C24_EffectEnds ==
    /\ [](/\ effect # "ended" => loading
          /\ effect = "ended" =>
                /\ ~loading
                /\ (error # "") # (tracks # <<>>))
    /\ <>[](effect = "ended" /\ ~loading)

\* the effect has ended on the path where the source has no previewable track
C24_Witness ==
    /\ effect = "ended"
    /\ ~loading
    /\ error = "No previewable tracks found in the selected source."
    /\ tracks = <<>>
    /\ totalRounds = 3

(* C25: getValidAccessToken returns the stored access token, sending no refresh
   request, exactly when a token and an expiry are stored and the time of the
   call is before the stored expiry, which storeTokens sets 60 seconds before
   the real expiry.  Otherwise, with a stored refresh token, it sends a refresh
   request and returns the new token, or, when the refresh fails, returns null
   and leaves no access token, refresh token, expiry, PKCE verifier or state
   in the storage.  With no refresh token it returns null and changes nothing. *)
requestsOf(c) == {k \in 1..Len(auth.log) : auth.log[k].event = "request" /\ auth.log[k].call = c}
storesOf(c) == {k \in 1..Len(auth.log) : auth.log[k].event = "stored" /\ auth.log[k].call = c}

storedTokenUsable(storage, now) ==
    /\ storage.access # ""
    /\ storage.expiresAt # <<>>
    /\ \A k \in 1..Len(storage.expiresAt) : storage.expiresAt[k] \in DecimalDigits
    /\ now < digitsValue(storage.expiresAt)

C25_ValidTokenOrRefresh ==
    auth.used =>
        \A c \in AuthCalls :
            auth.calls[c].fn = "getValidAccessToken" /\ auth.calls[c].pc = "done" =>
                LET e == auth.calls[c].entry
                    returned == auth.calls[c].result
                    usable == storedTokenUsable(e.storage, e.now)
                IN  /\ usable <=> (returned # "" /\ returned = e.storage.access /\ requestsOf(c) = {})
                    /\ ~usable /\ e.storage.refresh # "" =>
                           \/ /\ storesOf(c) = {}
                              /\ returned = ""
                              /\ auth.storage = EmptyStorage
                           \/ \E k \in storesOf(c) :
                                  /\ \E r \in requestsOf(c) :
                                         /\ r < k
                                         /\ auth.log[r].grant = "refresh_token"
                                         /\ auth.log[r].credential = e.storage.refresh
                                  /\ returned = auth.log[k].tokens.access_token
                                  /\ returned \notin {"", e.storage.access}
                                  /\ auth.storage.access = returned
                                  /\ toNumber(auth.storage.expiresAt).int + 60 * 1000
                                         = auth.log[k].now + auth.log[k].tokens.expires_in * 1000
                    /\ ~usable /\ e.storage.refresh = "" =>
                           /\ returned = ""
                           /\ auth.storage = e.storage
                           /\ auth.log = <<>>

\* a token that expired at the very time of the call was replaced by a refresh
C25_Witness ==
    /\ auth.used
    /\ Len(auth.calls) = 1
    /\ auth.calls[1].pc = "done"
    /\ auth.calls[1].entry.storage.access = "A0"
    /\ toNumber(auth.calls[1].entry.storage.expiresAt).int = auth.calls[1].entry.now
    /\ auth.calls[1].result = "A1"
    /\ auth.storage.access = "A1"
    /\ auth.storage.refresh = "R1"
    /\ auth.now > auth.calls[1].entry.now

(* C26: handleSpotifyRedirectCallback sends the code exchange request only when
   the state parameter of the URL is present and equal to the stored state; a
   call that finds the state missing or different sends no token request and
   clears all auth storage; once an exchange has succeeded the PKCE verifier
   and state are gone from the storage and no further exchange request is
   sent. *)
exchangeRequests ==
    {k \in 1..Len(auth.log) : auth.log[k].event = "request"
                              /\ auth.log[k].grant = "authorization_code"}
exchangesStored ==
    {k \in 1..Len(auth.log) : auth.log[k].event = "stored"
                              /\ auth.log[k].grant = "authorization_code"}

C26_StateCheckedExchange ==
    auth.used =>
        /\ \A k \in exchangeRequests :
               /\ auth.log[k].urlState # ""
               /\ auth.log[k].urlState = auth.log[k].storedState
               /\ auth.log[k].credential # ""
        /\ \A c \in AuthCalls :
               LET e == auth.calls[c].entry
               IN  /\ auth.calls[c].fn = "handleSpotifyRedirectCallback"
                   /\ auth.calls[c].pc = "done"
                   /\ e.url.hasCode
                   /\ (e.url.state = "" \/ e.url.state # e.storage.state)
                   => /\ requestsOf(c) = {}
                      /\ auth.storage = EmptyStorage
        /\ \A k \in exchangesStored :
               /\ auth.storage.verifier = ""
               /\ auth.storage.state = ""
               /\ \A j \in exchangeRequests : j < k

\* the first invocation exchanged the code; the second, started before the URL
\* was replaced, found the state removed and sent nothing
C26_Witness ==
    /\ auth.used
    /\ Len(auth.calls) = 2
    /\ auth.calls[1].fn = "handleSpotifyRedirectCallback"
    /\ auth.calls[1].pc = "done"
    /\ auth.calls[2].pc = "done"
    /\ storesOf(1) # {}
    /\ auth.calls[2].entry.url.hasCode
    /\ auth.calls[2].entry.url.state = "S"
    /\ auth.calls[2].entry.storage.state = ""
    /\ requestsOf(2) = {}
    /\ auth.calls[2].result = "true"

(* C27: when two getValidAccessToken calls have both sent their refresh request
   before either request was answered, and at least one of the two refreshes
   succeeded, then once both calls have finished the storage still holds the
   tokens stored by a successful refresh. *)
refreshAnswers ==
    {k \in 1..Len(auth.log) : auth.log[k].event \in {"stored", "cleared"}}

C27_RefreshedTokensKept ==
    /\ auth.used
    /\ Len(auth.calls) = 2
    /\ \A c \in AuthCalls : auth.calls[c].pc = "done" /\ requestsOf(c) # {}
    /\ \A c \in AuthCalls : \A r \in requestsOf(c) : \A k \in refreshAnswers : r < k
    /\ \E c \in AuthCalls : storesOf(c) # {}
    => \E c \in AuthCalls : \E k \in storesOf(c) :
           /\ auth.storage.access = auth.log[k].tokens.access_token
           /\ auth.storage.expiresAt # <<>>

(* C28: the Next button empties the guess, sets triesLeft to 3, revealed to
   false and result to idle and adds one to round, leaving correctCount,
   wrongCount and totalRounds as they are; Replay sets round to 1, both
   counters to 0 and the track index to 0; every step that begins a round,
   Replay included, leaves triesLeft = 3 and revealed = false. *)
C28_RoundsStartFresh ==
    [][/\ nextRound => /\ guess' = <<>> /\ triesLeft' = 3 /\ ~revealed' /\ result' = "idle"
                       /\ round' = round + 1
                       /\ UNCHANGED <<correctCount, wrongCount, totalRounds>>
       /\ Replay => round' = 1 /\ correctCount' = 0 /\ wrongCount' = 0 /\ currentIndex' = 0
       /\ round' # round => triesLeft' = 3 /\ ~revealed']_vars

====
